---- MODULE Spec2Model ----
(***************************************************************************)
(* A model of the phlego RV32IM emulator: the memory image (memory.cpp),   *)
(* the CPU with its five stage threads (cpu.cpp, cpu.h) and main().        *)
(*                                                                         *)
(* uint32_t values.  TLC's integers are 32 bits wide and signed, so a      *)
(* uint32_t is held as the int32_t with the same bit pattern (the value    *)
(* static_cast<int32_t> gives): 0xFFFFFFFF is -1, 0x80000000 is            *)
(* -2147483647 - 1.  Every operation below is computed on 16-bit halves    *)
(* and wraps modulo 2^32 as the C++ unsigned arithmetic does.  \div and %  *)
(* are the floor division and modulus of TLA+, so x % 2^k and x \div 2^k   *)
(* are the two's-complement "x & (2^k - 1)" and "x >> k" (arithmetic).     *)
(***************************************************************************)
EXTENDS Integers, Naturals, Sequences, FiniteSets, TLC

VARIABLES
    checked,    \* TRUE: memory.cpp with bounds checks; FALSE: without them
    data,       \* Memory::data, the byte vector
    memop,      \* the last call of the Memory load/store interface
    pc,         \* CPU::pc
    registers,  \* CPU::registers (the value fields)
    pipeline,   \* CPU::pipeline
    at,         \* where main and each stage thread stand
    status,     \* the process: running, or how it ended
    out,        \* the register dumps print_registers wrote so far
    faulted,     \* the exception a thread raised, "none" before
    entry       \* the pc, registers and memory run() started from (history)

vars == <<checked, data, memop, pc, registers, pipeline, at, status, out, faulted, entry>>

(***************************************************************************)
(* Bounds of the model.                                                    *)
(***************************************************************************)
\* Memory(size): the size of the byte vector (main passes 1024 * 1024).
MemSize == 20
\* How many calls of the load/store interface MemSpec makes in a row.
MaxMemOps == 2

(***************************************************************************)
(* 32-bit words.                                                           *)
(***************************************************************************)
Half == 2^16

Lo16(x) == x % Half
Hi16(x) == (x \div Half) % Half

\* The element of a singleton.  The word operators below take their operands
\* through it, so that an operand is evaluated once however often the
\* operator uses it.
The(S) == CHOOSE r \in S : TRUE

\* The word with the given 16-bit halves.
Word(hi, lo) ==
    The({IF h >= 32768 THEN (h - Half) * Half + l ELSE h * Half + l :
            h \in {hi}, l \in {lo}})

\* 0xB3B2B1B0 written by its bytes.
Hex(b3, b2, b1, b0) == Word(b3 * 256 + b2, b1 * 256 + b0)

IsWord(x) == x \in Int /\ x >= -2147483647 - 1 /\ x <= 2147483647

\* uint32_t a + b
Add32(a, b) ==
    The({LET lo == Lo16(x) + Lo16(y)
             hi == Hi16(x) + Hi16(y) + (lo \div Half)
         IN  Word(hi % Half, lo % Half) : x \in {a}, y \in {b}})

\* uint32_t a - b
Sub32(a, b) ==
    The({LET lo == Lo16(x) - Lo16(y)
             hi == Hi16(x) - Hi16(y) + (lo \div Half)
         IN  Word(hi % Half, lo % Half) : x \in {a}, y \in {b}})

\* The comparison of the two values as int32_t.
LtSigned(a, b) == a < b

\* (uint32_t)a < (uint32_t)b
ULt(a, b) == IF (a < 0) = (b < 0) THEN a < b ELSE b < 0

\* bit i of a 16-bit natural
Bit(x, i) == (x \div 2^i) % 2

\* One bit of a & b, a | b, a ^ b.
BitOf(op, x, y) ==
    CASE op = "and" -> IF x = 1 /\ y = 1 THEN 1 ELSE 0
      [] op = "or"  -> IF x = 1 \/ y = 1 THEN 1 ELSE 0
      [] op = "xor" -> IF x # y THEN 1 ELSE 0

\* The bitwise operation on 16-bit naturals, bit by bit.
BitOp(op, a, b) ==
    LET f(i) == BitOf(op, Bit(a, i), Bit(b, i)) * 2^i
    IN  f(0) + f(1) + f(2) + f(3) + f(4) + f(5) + f(6) + f(7)
        + f(8) + f(9) + f(10) + f(11) + f(12) + f(13) + f(14) + f(15)

Bitwise(op, a, b) ==
    The({Word(BitOp(op, Hi16(x), Hi16(y)), BitOp(op, Lo16(x), Lo16(y))) :
            x \in {a}, y \in {b}})

And32(a, b) == Bitwise("and", a, b)
Or32(a, b)  == Bitwise("or", a, b)
Xor32(a, b) == Bitwise("xor", a, b)

\* uint32_t a << k, 0 <= k <= 31
Shl32(a, k) ==
    The({IF n < 16
         THEN LET lo == Lo16(x) * 2^n
                  hi == Hi16(x) * 2^n + (lo \div Half)
              IN  Word(hi % Half, lo % Half)
         ELSE Word((Lo16(x) * 2^(n - 16)) % Half, 0) : x \in {a}, n \in {k}})

\* uint32_t a >> k (logical), 0 <= k <= 31
Shr32(a, k) ==
    The({IF n < 16
         THEN Word(Hi16(x) \div 2^n,
                   (Lo16(x) \div 2^n) + (Hi16(x) % 2^n) * 2^(16 - n))
         ELSE Word(0, Hi16(x) \div 2^(n - 16)) : x \in {a}, n \in {k}})

\* int32_t a >> k (arithmetic), 0 <= k <= 31
Sar32(a, k) == IF k = 31 THEN (IF a < 0 THEN -1 ELSE 0) ELSE a \div 2^k

\* (int8_t)b and (int16_t)h, converted back to 32 bits
SExt8(b)  == IF b >= 128 THEN b - 256 ELSE b
SExt16(h) == IF h >= 32768 THEN h - Half ELSE h

\* byte k (0 the least significant) of a word
ByteOf(x, k) == (x \div 256^k) % 256

(***************************************************************************)
(* Memory (memory.cpp).  A call returns a record: kind "ok" with its       *)
(* result, kind "out_of_range" when the bounds check threw, kind "ub" when *)
(* the call indexed the vector outside [0, size): undefined behaviour.     *)
(***************************************************************************)
Bytes == 0 .. 255

\* Memory::Memory(size): data(size), every byte zero
Memory(size) == [a \in 0 .. size - 1 |-> 0]

Size(d) == Cardinality(DOMAIN d)

\* (uint32_t)address >= data.size()
OutOfRange(d, address) == address < 0 \/ address >= Size(d)

\* data[address] is an element of the vector
InVector(d, address) == address \in DOMAIN d

AllInVector(d, address, w) ==
    \A i \in 0 .. w - 1 : InVector(d, Add32(address, i))

load_byte(chk, d, address) ==
    IF chk /\ OutOfRange(d, address)
    THEN [kind |-> "out_of_range", value |-> 0]
    ELSE IF ~AllInVector(d, address, 1)
    THEN [kind |-> "ub", value |-> 0]
    ELSE [kind |-> "ok", value |-> d[address]]

load_half_word(chk, d, address) ==
    IF chk /\ OutOfRange(d, Add32(address, 1))
    THEN [kind |-> "out_of_range", value |-> 0]
    ELSE IF ~AllInVector(d, address, 2)
    THEN [kind |-> "ub", value |-> 0]
    ELSE [kind |-> "ok",
          value |-> Or32(Shl32(d[address], 8), d[Add32(address, 1)]) % Half]

load_word(chk, d, address) ==
    IF chk /\ OutOfRange(d, Add32(address, 3))
    THEN [kind |-> "out_of_range", value |-> 0]
    ELSE IF ~AllInVector(d, address, 4)
    THEN [kind |-> "ub", value |-> 0]
    ELSE [kind |-> "ok",
          value |-> Or32(Or32(Shl32(d[address], 24), Shl32(d[Add32(address, 1)], 16)),
                         Or32(Shl32(d[Add32(address, 2)], 8), d[Add32(address, 3)]))]

\* The bytes a store writes, in the order it writes them: <<offset, byte>>.
store_byte_writes(value)      == << <<0, value % 256>> >>
store_half_word_writes(value) == << <<0, Shr32(value % Half, 8) % 256>>,
                                    <<1, value % 256>> >>
store_word_writes(value)      == << <<0, Shr32(value, 24) % 256>>,
                                    <<1, Shr32(value, 16) % 256>>,
                                    <<2, Shr32(value, 8) % 256>>,
                                    <<3, value % 256>> >>

\* d after the writes that fall inside the vector
RECURSIVE Written(_, _, _)
Written(d, address, ws) ==
    IF ws = <<>> THEN d
    ELSE LET a == Add32(address, ws[1][1])
             e == IF InVector(d, a) THEN [d EXCEPT ![a] = ws[1][2]] ELSE d
         IN  Written(e, address, Tail(ws))

\* A store that writes the bytes inside the vector before it checks.
StoreThenCheck(chk, d, address, last, ws) ==
    IF chk /\ OutOfRange(d, Add32(address, last))
    THEN [kind |-> "out_of_range", data |-> Written(d, address, ws)]
    ELSE IF ~AllInVector(d, address, Len(ws))
    THEN [kind |-> "ub", data |-> Written(d, address, ws)]
    ELSE [kind |-> "ok", data |-> Written(d, address, ws)]

Store(chk, d, address, last, ws) ==
    IF chk /\ OutOfRange(d, Add32(address, last))
    THEN [kind |-> "out_of_range", data |-> d]
    ELSE IF ~AllInVector(d, address, Len(ws))
    THEN [kind |-> "ub", data |-> Written(d, address, ws)]
    ELSE [kind |-> "ok", data |-> Written(d, address, ws)]

store_byte(chk, d, address, value) ==
    Store(chk, d, address, 0, store_byte_writes(value))
store_half_word(chk, d, address, value) ==
    Store(chk, d, address, 1, store_half_word_writes(value))
store_word(chk, d, address, value) ==
    Store(chk, d, address, 3, store_word_writes(value))

(***************************************************************************)
(* 64-bit products and 32-bit quotients, computed on bytes and bits.       *)
(***************************************************************************)
\* The eight bytes (least significant first) of (uint64_t)a * (uint64_t)b.
RECURSIVE Carry(_, _, _)
Carry(cols, k, c) ==
    IF k > 8 THEN <<>>
    ELSE LET s == (IF k <= 7 THEN cols[k] ELSE 0) + c
         IN  <<s % 256>> \o Carry(cols, k + 1, s \div 256)

MulBytes(a, b) ==
    LET cols == [k \in 1 .. 7 |->
                   LET ix == {i \in 0 .. 3 : k - 1 - i \in 0 .. 3}
                       RECURSIVE Sum(_)
                       Sum(S) == IF S = {} THEN 0
                                 ELSE LET i == CHOOSE x \in S : TRUE
                                      IN  ByteOf(a, i) * ByteOf(b, k - 1 - i) + Sum(S \ {i})
                   IN  Sum(ix)]
    IN  Carry(cols, 1, 0)

\* the low and the high 32 bits of (uint64_t)a * (uint64_t)b
MulLo32(a, b) == LET m == MulBytes(a, b) IN Hex(m[4], m[3], m[2], m[1])
MulHiU32(a, b) == LET m == MulBytes(a, b) IN Hex(m[8], m[7], m[6], m[5])

\* (uint32_t)a / (uint32_t)b and a % b for b # 0: <<quotient, remainder>>.
\* With a = 2h + bit, h / b = q1 and h % b = r1: a / b = 2 q1 + q2, where q2
\* is 1 exactly when 2 r1 + bit >= b.
UDivMod(a, b) ==
    IF b < 0 THEN (IF ULt(a, b) THEN <<0, a>> ELSE <<1, Sub32(a, b)>>)
    ELSE IF a >= 0 THEN <<a \div b, a % b>>
    ELSE LET h == Shr32(a, 1)
             bit == a % 2
             q1 == h \div b
             r1 == h % b
         IN  IF r1 >= b - r1 - bit
             THEN <<Add32(Shl32(q1, 1), 1), r1 - (b - r1 - bit)>>
             ELSE <<Shl32(q1, 1), 2 * r1 + bit>>

UDiv32(a, b) == UDivMod(a, b)[1]
URem32(a, b) == UDivMod(a, b)[2]

Int32Min == -2147483647 - 1

\* (int32_t)a / (int32_t)b, truncating, for b # 0 and not (a = INT32_MIN, b = -1)
RECURSIVE SDiv32(_, _)
SDiv32(a, b) ==
    IF b > 0
    THEN LET q == a \div b
         IN  IF a < 0 /\ a % b # 0 THEN q + 1 ELSE q
    ELSE IF b = Int32Min
    THEN (IF a = Int32Min THEN 1 ELSE 0)
    ELSE -SDiv32(a, -b)

\* (int32_t)a % (int32_t)b, the remainder of the truncating division
SRem32(a, b) ==
    IF b = Int32Min
    THEN (IF a = Int32Min THEN 0 ELSE a)
    ELSE LET m == IF b < 0 THEN -b ELSE b
             r == a % m
         IN  IF a < 0 /\ r # 0 THEN r - m ELSE r

(***************************************************************************)
(* Decoded instructions (cpu.h).  The variant's alternative is the field   *)
(* type; the fields an alternative does not have are 0.                    *)
(***************************************************************************)
R_TYPE      == 51    \* 0x33
I_TYPE_LOAD == 3     \* 0x03
I_TYPE_ALU  == 19    \* 0x13
JALR        == 103   \* 0x67
S_TYPE      == 35    \* 0x23
B_TYPE      == 99    \* 0x63
J_TYPE      == 111   \* 0x6F
U_TYPE      == 55    \* 0x37

RType(funct3, funct7, rd, rs1, rs2) ==
    [type |-> "R", funct3 |-> funct3, funct7 |-> funct7, rd |-> rd,
     rs1 |-> rs1, rs2 |-> rs2, imm |-> 0]
IType(funct3, rd, rs1, imm) ==
    [type |-> "I", funct3 |-> funct3, funct7 |-> 0, rd |-> rd,
     rs1 |-> rs1, rs2 |-> 0, imm |-> imm]
SType(funct3, rs1, rs2, imm) ==
    [type |-> "S", funct3 |-> funct3, funct7 |-> 0, rd |-> 0,
     rs1 |-> rs1, rs2 |-> rs2, imm |-> imm]
BType(funct3, rs1, rs2, imm) ==
    [type |-> "B", funct3 |-> funct3, funct7 |-> 0, rd |-> 0,
     rs1 |-> rs1, rs2 |-> rs2, imm |-> imm]
JType(rd, imm) ==
    [type |-> "J", funct3 |-> 0, funct7 |-> 0, rd |-> rd,
     rs1 |-> 0, rs2 |-> 0, imm |-> imm]
UType(rd, imm) ==
    [type |-> "U", funct3 |-> 0, funct7 |-> 0, rd |-> rd,
     rs1 |-> 0, rs2 |-> 0, imm |-> imm]

\* static_cast<Opcode>(instruction & 0x7F)
OpcodeOf(instruction) == instruction % 128

\* The fields at fixed positions.
Funct3Of(instruction) == Shr32(instruction, 12) % 8
Funct7Of(instruction) == Shr32(instruction, 25) % 128
RdOf(instruction)     == Shr32(instruction, 7) % 32
Rs1Of(instruction)    == Shr32(instruction, 15) % 32
Rs2Of(instruction)    == Shr32(instruction, 20) % 32

\* static_cast<int32_t>(instruction) >> 20
ImmI(instruction) == Sar32(instruction, 20)

\* An S-type immediate left zero-extended.
ImmSZeroExtended(instruction) ==
    Or32(Shr32(instruction, 7) % 32, Shl32(Shr32(instruction, 25), 5))

ImmS(instruction) ==
    LET imm == Or32(Shr32(instruction, 7) % 32, Shl32(Shr32(instruction, 25), 5))
    IN  IF And32(imm, 2048) # 0 THEN Or32(imm, Hex(255, 255, 240, 0)) ELSE imm

ImmB(instruction) ==
    LET imm == Or32(Or32(And32(Shr32(instruction, 7), 30),
                         Shl32(Shr32(instruction, 25), 5)),
                    Or32(Shl32(And32(instruction, 128), 4),
                         Shr32(And32(instruction, Hex(128, 0, 0, 0)), 19)))
    IN  IF And32(imm, 4096) # 0 THEN Or32(imm, Hex(255, 255, 224, 0)) ELSE imm

ImmJ(instruction) ==
    Or32(Or32(Shr32(instruction, 21) % 1024,
              Shl32(Shr32(instruction, 20) % 2, 11)),
         Or32(Shl32(Shr32(instruction, 12) % 256, 12),
              IF And32(instruction, Hex(128, 0, 0, 0)) # 0
              THEN Hex(255, 240, 0, 0) ELSE 0))

ImmU(instruction) == And32(instruction, Hex(255, 255, 240, 0))

\* A decode whose switch lacks the default case: a word of an unknown
\* opcode is taken for an R-type instead of being rejected.
DecodedNoDefault(instruction) ==
    IF instruction = 0
    THEN [kind |-> "runtime_error", instr |-> RType(0, 0, 0, 0, 0)]
    ELSE [kind |-> "ok",
          instr |-> RType(Funct3Of(instruction), Funct7Of(instruction),
                          RdOf(instruction), Rs1Of(instruction), Rs2Of(instruction))]

\* What CPU::decode makes of an instruction word: the variant it stores in
\* pipeline.decode.decoded_instruction, or the exception it throws.
Decoded(instruction) ==
    IF instruction = 0
    THEN [kind |-> "runtime_error", instr |-> RType(0, 0, 0, 0, 0)]
    ELSE LET opcode == OpcodeOf(instruction)
             f3 == Funct3Of(instruction)
             rd == RdOf(instruction)
             rs1 == Rs1Of(instruction)
             rs2 == Rs2Of(instruction)
         IN  CASE opcode = R_TYPE ->
                    [kind |-> "ok", instr |-> RType(f3, Funct7Of(instruction), rd, rs1, rs2)]
               [] opcode \in {I_TYPE_LOAD, I_TYPE_ALU, JALR} ->
                    [kind |-> "ok", instr |-> IType(f3, rd, rs1, ImmI(instruction))]
               [] opcode = S_TYPE ->
                    [kind |-> "ok", instr |-> SType(f3, rs1, rs2, ImmS(instruction))]
               [] opcode = B_TYPE ->
                    [kind |-> "ok", instr |-> BType(f3, rs1, rs2, ImmB(instruction))]
               [] opcode = J_TYPE ->
                    [kind |-> "ok", instr |-> JType(rd, ImmJ(instruction))]
               [] opcode = U_TYPE ->
                    [kind |-> "ok", instr |-> UType(rd, ImmU(instruction))]
               [] OTHER ->
                    [kind |-> "runtime_error", instr |-> RType(0, 0, 0, 0, 0)]

(***************************************************************************)
(* The execution units (cpu.cpp).  regs is the register file they read.    *)
(***************************************************************************)
\* A shift amount clamped to 31 where the code masks it.
ShiftAmountClamped(x) == IF x % 64 >= 32 THEN 31 ELSE x % 32

\* x & 0x1F, the amount of every shift
ShiftAmount(x) == x % 32

execute_i_type(regs, instr) ==
    LET rs1 == regs[instr.rs1]
        imm == instr.imm
    IN  CASE instr.funct3 = 0 -> Add32(rs1, imm)                       \* ADDI
          [] instr.funct3 = 1 -> Shl32(rs1, ShiftAmount(imm))                  \* SLLI
          [] instr.funct3 = 2 -> IF rs1 < imm THEN 1 ELSE 0            \* SLTI
          [] instr.funct3 = 3 -> IF ULt(rs1, imm) THEN 1 ELSE 0        \* SLTIU
          [] instr.funct3 = 4 -> Xor32(rs1, imm)                       \* XORI
          [] instr.funct3 = 5 ->                                       \* SRLI, SRAI
                IF And32(imm, Hex(64, 0, 0, 0)) = 0
                THEN Shr32(rs1, ShiftAmount(imm))
                ELSE Sar32(rs1, ShiftAmount(imm))
          [] instr.funct3 = 6 -> Or32(rs1, imm)                        \* ORI
          [] instr.funct3 = 7 -> And32(rs1, imm)                       \* ANDI

Result(v) == [kind |-> "ok", value |-> v]
Throw(what) == [kind |-> what, value |-> 0]
\* Undefined behaviour; v is the value a build that goes on computes.
Undefined(v) == [kind |-> "ub", value |-> v]
\* INT32_MIN / -1 and INT32_MIN % -1 overflow int32_t: undefined behaviour
Overflows(a, b) == a = Int32Min /\ b = -1
\* (int64_t)a * (int64_t)b of two zero-extended uint32_t overflows int64_t
\* when the product reaches 2^63: undefined behaviour
MulOverflows(a, b) == MulHiU32(a, b) < 0

\* The value execute_r_type returns, or the exception it throws.
execute_r_type(regs, instr) ==
    LET rs1 == regs[instr.rs1]
        rs2 == regs[instr.rs2]
        f7 == instr.funct7
    IN  CASE instr.funct3 = 0 ->
                IF f7 = 0 THEN Result(Add32(rs1, rs2))                 \* ADD
                ELSE IF f7 = 32 THEN Result(Sub32(rs1, rs2))           \* SUB
                ELSE IF f7 = 1 THEN Result(MulLo32(rs1, rs2))          \* MUL
                ELSE Result(0)
          [] instr.funct3 = 1 ->
                IF f7 = 0 THEN Result(Shl32(rs1, ShiftAmount(rs2)))            \* SLL
                ELSE IF f7 = 1                                         \* MULH
                THEN (IF MulOverflows(rs1, rs2) THEN Undefined(MulHiU32(rs1, rs2))
                      ELSE Result(MulHiU32(rs1, rs2)))
                ELSE Result(0)
          [] instr.funct3 = 2 ->
                IF f7 = 0 THEN Result(IF rs1 < rs2 THEN 1 ELSE 0)      \* SLT
                ELSE IF f7 = 1 THEN Result(MulHiU32(rs1, rs2))         \* MULHSU
                ELSE Result(0)
          [] instr.funct3 = 3 ->
                IF f7 = 0 THEN Result(IF ULt(rs1, rs2) THEN 1 ELSE 0)  \* SLTU
                ELSE IF f7 = 1 THEN Result(MulHiU32(rs1, rs2))         \* MULHU
                ELSE Result(0)
          [] instr.funct3 = 4 ->
                IF f7 = 0 THEN Result(Xor32(rs1, rs2))                 \* XOR
                ELSE IF f7 = 1                                         \* DIV
                THEN (IF rs2 = 0 THEN Throw("runtime_error")
                      ELSE IF Overflows(rs1, rs2) THEN Undefined(Int32Min)
                      ELSE Result(SDiv32(rs1, rs2)))
                ELSE Result(0)
          [] instr.funct3 = 5 ->
                IF f7 = 0 THEN Result(Shr32(rs1, ShiftAmount(rs2)))            \* SRL
                ELSE IF f7 = 32 THEN Result(Sar32(rs1, ShiftAmount(rs2)))      \* SRA
                ELSE Result(0)
          [] instr.funct3 = 6 ->
                IF f7 = 0 THEN Result(Or32(rs1, rs2))                  \* OR
                ELSE IF f7 = 1                                         \* REM
                THEN (IF rs2 = 0 THEN Throw("runtime_error")
                      ELSE IF Overflows(rs1, rs2) THEN Undefined(0)
                      ELSE Result(SRem32(rs1, rs2)))
                ELSE Result(0)
          [] instr.funct3 = 7 ->
                IF f7 = 0 THEN Result(And32(rs1, rs2))                 \* AND
                ELSE IF f7 = 1                                         \* REMU
                THEN (IF rs2 = 0 THEN Throw("runtime_error")
                      ELSE Result(URem32(rs1, rs2)))
                ELSE Result(0)

\* The pc execute_b_type leaves, p being CPU::pc when it runs.
execute_b_type(regs, p, instr) ==
    LET target == Add32(p, instr.imm)
    IN  CASE instr.funct3 = 0 ->                                       \* BEQ
                IF regs[instr.rs1] = regs[instr.rs2] THEN Sub32(target, 4) ELSE p
          [] instr.funct3 = 1 ->                                       \* BNE
                IF regs[instr.rs1] # regs[instr.rs2] THEN Sub32(target, 4) ELSE p
          [] OTHER -> p

\* The register file and pc execute_j_type leaves.
execute_j_type(regs, p, instr) ==
    [registers |-> [regs EXCEPT ![instr.rd] = Add32(p, 4)],
     pc |-> Add32(p, Sub32(instr.imm, 4))]

execute_u_type(instr) == instr.imm

\* detect_hazard, p being the pipeline: the decode register is valid and the
\* execute register holds a valid R-type whose rd is rs1 or rs2 of the R-type
\* in the decode register, or rs1 or 0 for an I-type, or 0 for any other.
\* Nothing calls it.
detect_hazard(p) ==
    LET decoded == p.decode.decoded_instruction
        rs1 == IF decoded.type \in {"R", "I"} THEN decoded.rs1 ELSE 0
        rs2 == IF decoded.type = "R" THEN decoded.rs2 ELSE 0
    IN  /\ p.decode.valid
        /\ p.execute.valid
        /\ p.execute.instruction.type = "R"
        /\ p.execute.instruction.rd \in {rs1, rs2}

(***************************************************************************)
(* The inputs: programs, and the values of fields nothing initialises.     *)
(***************************************************************************)
\* The word run() compares pipeline.fetch.instruction with: ret.
RET == 32871

ADDI_X1_5   == Hex(0, 80, 0, 147)      \* 00500093  addi x1, x0, 5
ADDI_X2_10  == Hex(0, 160, 1, 19)      \* 00A00113  addi x2, x0, 10
ADD_X3      == Hex(0, 32, 129, 179)    \* 002081B3  add x3, x1, x2
ADDI_X0_5   == Hex(0, 80, 0, 19)       \* 00500013  addi x0, x0, 5
ADD_X0_SP   == Hex(0, 33, 0, 51)       \* 00210033  add x0, x2, x2
JAL_RA_8    == Hex(0, 128, 0, 239)     \* 008000EF  jal ra, +8
JAL_X0_8    == Hex(0, 128, 0, 111)     \* 0080006F  jal x0, +8
LW_X5_0     == Hex(0, 0, 34, 131)      \* 00002283  lw x5, 0(x0)
SW_SP_16    == Hex(0, 32, 40, 35)      \* 00202823  sw x2, 16(x0)
LUI_X1      == Hex(222, 173, 176, 183) \* DEADB0B7  lui x1, 0xDEADB
BEQ_8       == Hex(0, 0, 4, 99)        \* 00000463  beq x0, x0, +8
AUIPC_X0    == Hex(0, 0, 0, 23)        \* 00000017  auipc x0, 0
DIV_X3_0    == Hex(2, 1, 65, 179)      \* 020141B3  div x3, x2, x0
LW_X5_16    == Hex(1, 0, 34, 131)      \* 01002283  lw x5, 16(x0)
ECALL       == Hex(0, 0, 0, 115)       \* 00000073  ecall

\* addi x1, x0, 1; addi x2, x0, 1; beq x1, x2, +8; addi x3, x0, 3;
\* addi x4, x0, 4: the branch skips the addi to x3.
BranchScenario ==
    <<Hex(0, 16, 0, 147), Hex(0, 16, 1, 19), Hex(0, 32, 132, 99),
      Hex(0, 48, 1, 147), Hex(0, 64, 2, 19)>>

\* The .text sections the loader is given, each loaded at the entry point 0.
Programs ==
    { <<ADDI_X1_5, ADDI_X2_10, ADD_X3, RET>>,
      <<RET>>, <<ADDI_X0_5>>, <<ADD_X0_SP>>, <<JAL_RA_8>>, <<JAL_X0_8>>,
      <<LW_X5_0>>, <<SW_SP_16>>, <<LUI_X1>>, <<BEQ_8>>, <<AUIPC_X0>>,
      <<DIV_X3_0>>, <<SW_SP_16, LW_X5_16, RET>>, <<ECALL>>, BranchScenario, <<>> }

\* What an uninitialised uint32_t may hold.
Garbage == {0, Hex(222, 173, 190, 239)}

\* The default stack of load_from_elf: base 0x10000, size 0x1000.
StackStart == 65536
StackSize == 4096
\* The loader that reads the file reports the top of the stack; the loader
\* that is still a stub reports the base.
get_stack_pointer(chk) == IF chk THEN Add32(StackStart, StackSize) ELSE StackStart

Stages == {"fetch", "decode", "execute", "mem", "write_back"}

\* load_from_elf: the words of .text stored from vaddr on, by store_word
RECURSIVE Loaded(_, _, _)
Loaded(d, vaddr, text) ==
    IF text = <<>> THEN d
    ELSE Loaded(store_word(TRUE, d, vaddr, Head(text)).data, Add32(vaddr, 4), Tail(text))

\* The loader that reads the file copies .text; the stub only returns true.
load_from_elf(chk, d, text) == IF chk THEN Loaded(d, 0, text) ELSE d

\* CPU::CPU: every register value 0
ZeroRegisters == [i \in 0 .. 31 |-> 0]

\* The pipeline of a CPU on main's stack: the valid flags and stall are
\* false, the variants hold a zero RType, the uint32_t fields hold whatever
\* the stack held.  The fields g1, g2, g3 do not choose are written before
\* they are read.
NewPipeline(g1, g2, g3) ==
    [fetch      |-> [instruction |-> g1, pc |-> 0, valid |-> FALSE],
     decode     |-> [decoded_instruction |-> RType(0, 0, 0, 0, 0), pc |-> 0,
                     valid |-> FALSE],
     execute    |-> [instruction |-> RType(0, 0, 0, 0, 0), pc |-> 0,
                     alu_result |-> g2, valid |-> FALSE],
     memory     |-> [instruction |-> RType(0, 0, 0, 0, 0), pc |-> 0,
                     result |-> g3, valid |-> FALSE],
     write_back |-> [pc |-> 0, rd |-> 0, result |-> 0, valid |-> FALSE],
     stall      |-> FALSE]

NoMemOp == [n |-> 0, op |-> "none", width |-> 0, address |-> 0, value |-> 0,
            kind |-> "ok", result |-> 0, before |-> <<>>]

\* The machine state run() starts from, kept to compare the end with: no
\* field of the program, set once by RunStart.
NoEntry == [pc |-> 0, registers |-> ZeroRegisters, data |-> <<>>]

\* The process starts: main is entered, no stage thread exists.
Init ==
    /\ checked \in BOOLEAN
    /\ data = Memory(MemSize)
    /\ memop = NoMemOp
    /\ pc = 0
    /\ registers = ZeroRegisters
    /\ \E g1 \in Garbage, g2 \in Garbage, g3 \in Garbage :
          pipeline = NewPipeline(g1, g2, g3)
    /\ at = [t \in Stages \cup {"main"} |-> IF t = "main" THEN "main" ELSE "unborn"]
    /\ status = "running"
    /\ out = <<>>
    /\ faulted = "none"
    /\ entry = NoEntry

Running == status = "running"

(***************************************************************************)
(* main and CPU::run.                                                      *)
(***************************************************************************)
\* argc != 2: the usage message, return 1
MainUsage ==
    /\ Running /\ at["main"] = "main"
    /\ status' = "exit1"
    /\ faulted' = "usage"
    /\ at' = [at EXCEPT !["main"] = "exited"]
    /\ UNCHANGED <<entry, checked, data, memop, pc, registers, pipeline, out>>

\* load_from_elf returns false, which only the loader that reads the file
\* does.  The message is built from argv[2], a null pointer when argc is 2:
\* undefined behaviour, the library throws and the process aborts, or the
\* message is printed and main returns 1.
MainLoadFail ==
    /\ Running /\ at["main"] = "main"
    /\ checked
    /\ status' \in {"exit1", "abort"}
    /\ faulted' = "load"
    /\ at' = [at EXCEPT !["main"] = "exited"]
    /\ UNCHANGED <<entry, checked, data, memop, pc, registers, pipeline, out>>

\* load_from_elf succeeds; set_sp, set_pc; cpu.run() is entered
MainLoad(text) ==
    /\ Running /\ at["main"] = "main"
    /\ data' = load_from_elf(checked, data, text)
    /\ registers' = [registers EXCEPT ![2] = get_stack_pointer(checked)]
    /\ pc' = 0
    /\ at' = [at EXCEPT !["main"] = "run"]
    /\ UNCHANGED <<entry, checked, memop, pipeline, status, out, faulted>>

\* print_registers: the pc and the 32 registers as they are now
Dump == [pc |-> pc, registers |-> registers]

\* run(): the dump at the start, then start_threads
RunStart ==
    /\ Running /\ at["main"] = "run"
    /\ out' = Append(out, Dump)
    /\ at' = [t \in DOMAIN at |-> IF t = "main" THEN "run_check" ELSE "pred"]
    /\ entry' = [pc |-> pc, registers |-> registers, data |-> data]
    /\ UNCHANGED <<checked, data, memop, pc, registers, pipeline, status, faulted>>

\* run(): if (pipeline.fetch.instruction == 0x00008067)
RunCheck ==
    /\ Running /\ at["main"] = "run_check"
    /\ at' = [at EXCEPT !["main"] =
                IF pipeline.fetch.instruction = RET THEN "stop_threads" ELSE "run_print"]
    /\ UNCHANGED <<entry, checked, data, memop, pc, registers, pipeline, status, out, faulted>>

\* stop_threads: the five joins return once every stage function returned
StopThreads ==
    /\ Running /\ at["main"] = "stop_threads"
    /\ \A t \in Stages : at[t] = "done"
    /\ at' = [t \in DOMAIN at |-> IF t = "main" THEN "run_print" ELSE "joined"]
    /\ UNCHANGED <<entry, checked, data, memop, pc, registers, pipeline, status, out, faulted>>

\* run(): the dump after execution; run returns
RunPrint ==
    /\ Running /\ at["main"] = "run_print"
    /\ out' = Append(out, Dump)
    /\ at' = [at EXCEPT !["main"] = "return"]
    /\ UNCHANGED <<entry, checked, data, memop, pc, registers, pipeline, status, faulted>>

\* main: return 0.  cpu is destroyed: a std::thread member still joinable
\* calls std::terminate.
MainReturn ==
    /\ Running /\ at["main"] = "return"
    /\ status' = IF \A t \in Stages : at[t] = "joined" THEN "exit0" ELSE "abort"
    /\ at' = [at EXCEPT !["main"] = "exited"]
    /\ UNCHANGED <<entry, checked, data, memop, pc, registers, pipeline, out, faulted>>

(***************************************************************************)
(* The stage threads.  Each runs its stage function once.                  *)
(* cv.wait(lock, pred) is while (!pred()) cv.wait(lock): a thread at       *)
(* "pred" evaluates the predicate, at "wait" it found it false and is      *)
(* about to block, at "blocked" it sleeps until a notify_all or a spurious *)
(* wake-up.  Each stage locks a mutex of its own, so no lock orders them.  *)
(***************************************************************************)
Pred(t) ==
    CASE t = "fetch"      -> ~pipeline.stall /\ ~pipeline.fetch.valid
      [] t = "decode"     -> pipeline.fetch.valid
      [] t = "execute"    -> pipeline.decode.valid
      [] t = "mem"        -> pipeline.execute.valid
      [] t = "write_back" -> pipeline.memory.valid

WaitPred(t) ==
    /\ Running /\ at[t] = "pred"
    /\ at' = [at EXCEPT ![t] = IF Pred(t) THEN "body" ELSE "wait"]
    /\ UNCHANGED <<entry, checked, data, memop, pc, registers, pipeline, status, out, faulted>>

WaitBlock(t) ==
    /\ Running /\ at[t] = "wait"
    /\ at' = [at EXCEPT ![t] = "blocked"]
    /\ UNCHANGED <<entry, checked, data, memop, pc, registers, pipeline, status, out, faulted>>

SpuriousWake(t) ==
    /\ Running /\ at[t] = "blocked"
    /\ at' = [at EXCEPT ![t] = "pred"]
    /\ UNCHANGED <<entry, checked, data, memop, pc, registers, pipeline, status, out, faulted>>

\* a after thread t returned from its stage function, having called
\* notify_all on the condition variable thread w waits on
Returned(a, t, w) ==
    [x \in DOMAIN a |-> IF x = t THEN "done"
                        ELSE IF x = w /\ a[x] = "blocked" THEN "pred"
                        ELSE a[x]]

\* a after thread t left its stage function by an exception
Threw(a, t) == [a EXCEPT ![t] = "threw"]

\* An exception leaves a thread function: std::terminate aborts the process.
Terminate ==
    /\ Running
    /\ \E t \in Stages : at[t] = "threw"
    /\ status' = "abort"
    /\ UNCHANGED <<entry, checked, data, memop, pc, registers, pipeline, at, out, faulted>>

fetch ==
    /\ Running /\ at["fetch"] = "body"
    /\ IF ~pipeline.stall /\ ~pipeline.fetch.valid
       THEN LET r == load_word(checked, data, pc)
            IN  CASE r.kind = "ok" ->
                       /\ pipeline' = [pipeline EXCEPT !.fetch =
                              [instruction |-> r.value, pc |-> pc, valid |-> TRUE]]
                       /\ pc' = Add32(pc, 4)
                       /\ at' = Returned(at, "fetch", "decode")
                       /\ UNCHANGED <<status, faulted>>
                  [] r.kind = "out_of_range" ->
                       /\ at' = Threw(at, "fetch")
                       /\ faulted' = "out_of_range"
                       /\ UNCHANGED <<pipeline, pc, status>>
                  [] r.kind = "ub" ->
                       /\ status' = "signal"
                       /\ UNCHANGED <<pipeline, pc, at, faulted>>
       ELSE /\ at' = Returned(at, "fetch", "decode")
            /\ UNCHANGED <<pipeline, pc, status, faulted>>
    /\ UNCHANGED <<entry, checked, data, memop, registers, out>>

decode ==
    /\ Running /\ at["decode"] = "body"
    /\ IF ~pipeline.stall /\ pipeline.fetch.valid
       THEN LET r == Decoded(pipeline.fetch.instruction)
            IN  IF r.kind = "ok"
                THEN /\ pipeline' = [pipeline EXCEPT
                            !.decode = [decoded_instruction |-> r.instr,
                                        pc |-> pipeline.fetch.pc, valid |-> TRUE],
                            !.fetch.valid = FALSE]
                     /\ at' = Returned(at, "decode", "execute")
                     /\ UNCHANGED faulted
                ELSE /\ at' = Threw(at, "decode")
                     /\ faulted' = r.kind
                     /\ UNCHANGED pipeline
       ELSE /\ at' = Returned(at, "decode", "execute")
            /\ UNCHANGED <<pipeline, faulted>>
    /\ UNCHANGED <<entry, checked, data, memop, pc, registers, status, out>>

\* The opcode execute, mem and write_back read: of the word in the fetch
\* register, whatever it holds when they run.
FetchedOpcode == OpcodeOf(pipeline.fetch.instruction)

\* An execute that latches the decode register and leaves decode.valid set.
ExecuteLatchKeepsValid ==
    /\ Running /\ at["execute"] = "body"
    /\ IF ~pipeline.stall /\ pipeline.decode.valid
       THEN /\ pipeline' = [pipeline EXCEPT
                   !.execute.instruction = pipeline.decode.decoded_instruction,
                   !.execute.pc = pipeline.decode.pc,
                   !.execute.valid = TRUE]
            /\ at' = [at EXCEPT !["execute"] = "compute"]
       ELSE /\ at' = [at EXCEPT !["execute"] = "done"]
            /\ UNCHANGED pipeline
    /\ UNCHANGED <<entry, checked, data, memop, pc, registers, status, out, faulted>>

\* execute: the decode register is latched, execute.valid is set
ExecuteLatch ==
    /\ Running /\ at["execute"] = "body"
    /\ IF ~pipeline.stall /\ pipeline.decode.valid
       THEN /\ pipeline' = [pipeline EXCEPT
                   !.execute.instruction = pipeline.decode.decoded_instruction,
                   !.execute.pc = pipeline.decode.pc,
                   !.execute.valid = TRUE,
                   !.decode.valid = FALSE]
            /\ at' = [at EXCEPT !["execute"] = "compute"]
       ELSE /\ at' = [at EXCEPT !["execute"] = "done"]
            /\ UNCHANGED pipeline
    /\ UNCHANGED <<entry, checked, data, memop, pc, registers, status, out, faulted>>

\* execute: the result is computed, mem_cv is notified
ExecuteCompute ==
    /\ Running /\ at["execute"] = "compute"
    /\ LET decoded == pipeline.decode.decoded_instruction
           Alu(v) == /\ pipeline' = [pipeline EXCEPT !.execute.alu_result = v]
                     /\ at' = Returned(at, "execute", "mem")
                     /\ UNCHANGED <<pc, registers, status, faulted>>
       IN  CASE decoded.type = "R" ->
                  LET r == execute_r_type(registers, decoded)
                  IN  CASE r.kind = "ok" -> Alu(r.value)
                        [] r.kind = "ub" ->
                             \/ Alu(r.value)
                             \/ /\ status' = "signal"
                                /\ UNCHANGED <<pipeline, at, pc, registers, faulted>>
                        [] OTHER ->
                             /\ at' = Threw(at, "execute")
                             /\ faulted' = r.kind
                             /\ UNCHANGED <<pipeline, pc, registers, status>>
             [] decoded.type = "I" ->
                  IF FetchedOpcode = I_TYPE_ALU
                  THEN Alu(execute_i_type(registers, decoded))
                  ELSE Alu(Add32(registers[decoded.rs1], decoded.imm))
             [] decoded.type = "J" ->
                  LET r == execute_j_type(registers, pc, decoded)
                  IN  /\ registers' = r.registers
                      /\ pc' = r.pc
                      /\ at' = Returned(at, "execute", "mem")
                      /\ UNCHANGED <<pipeline, status, faulted>>
             [] decoded.type = "S" ->
                  Alu(Add32(registers[decoded.rs1], decoded.imm))
             [] decoded.type = "B" ->
                  /\ pc' = execute_b_type(registers, pc, decoded)
                  /\ at' = Returned(at, "execute", "mem")
                  /\ UNCHANGED <<pipeline, registers, status, faulted>>
             [] decoded.type = "U" -> Alu(execute_u_type(decoded))
    /\ UNCHANGED <<entry, checked, data, memop, out>>

\* mem: the execute register is latched, memory.valid is set
MemLatch ==
    /\ Running /\ at["mem"] = "body"
    /\ IF ~pipeline.stall /\ pipeline.execute.valid
       THEN /\ pipeline' = [pipeline EXCEPT
                   !.memory.instruction = pipeline.execute.instruction,
                   !.memory.pc = pipeline.execute.pc,
                   !.memory.valid = TRUE,
                   !.execute.valid = FALSE]
            /\ at' = [at EXCEPT !["mem"] = "access"]
       ELSE /\ at' = [at EXCEPT !["mem"] = "done"]
            /\ UNCHANGED pipeline
    /\ UNCHANGED <<entry, checked, data, memop, pc, registers, status, out, faulted>>

\* mem: the load or the store is made, write_back_cv is notified
MemAccess ==
    /\ Running /\ at["mem"] = "access"
    /\ LET instr == pipeline.execute.instruction
           address == pipeline.execute.alu_result
           Finish(p, d) == /\ pipeline' = p
                           /\ data' = d
                           /\ at' = Returned(at, "mem", "write_back")
                           /\ UNCHANGED <<status, faulted>>
           Fault(r) == IF r.kind = "out_of_range"
                       THEN /\ at' = Threw(at, "mem")
                            /\ faulted' = "out_of_range"
                            /\ UNCHANGED <<pipeline, data, status>>
                       ELSE /\ status' = "signal"
                            /\ UNCHANGED <<pipeline, data, at, faulted>>
           Load(r, v) == IF r.kind = "ok"
                         THEN Finish([pipeline EXCEPT
                                  !.memory.result = v,
                                  !.write_back = [pc |-> pipeline.memory.pc,
                                                  rd |-> instr.rd, result |-> v,
                                                  valid |-> TRUE]], data)
                         ELSE Fault(r)
           Stored(r) == IF r.kind = "ok" THEN Finish(pipeline, r.data) ELSE Fault(r)
       IN  CASE instr.type = "I" /\ FetchedOpcode = I_TYPE_LOAD ->
                  CASE instr.funct3 = 0 ->
                         LET r == load_byte(checked, data, address)
                         IN  Load(r, SExt8(r.value))
                    [] instr.funct3 = 1 ->
                         LET r == load_half_word(checked, data, address)
                         IN  Load(r, SExt16(r.value))
                    [] instr.funct3 = 2 ->
                         LET r == load_word(checked, data, address)
                         IN  Load(r, r.value)
                    [] OTHER ->
                         Finish([pipeline EXCEPT
                             !.write_back = [pc |-> pipeline.memory.pc,
                                             rd |-> instr.rd,
                                             result |-> pipeline.memory.result,
                                             valid |-> TRUE]], data)
             [] instr.type = "S" ->
                  CASE instr.funct3 = 0 ->
                         Stored(store_byte(checked, data, address,
                                           And32(registers[instr.rs2], 255)))
                    [] instr.funct3 = 1 ->
                         Stored(store_half_word(checked, data, address,
                                                And32(registers[instr.rs2], 65535)))
                    [] instr.funct3 = 2 ->
                         Stored(store_word(checked, data, address, registers[instr.rs2]))
                    [] OTHER -> Finish(pipeline, data)
             [] OTHER -> Finish(pipeline, data)
    /\ UNCHANGED <<entry, checked, memop, pc, registers, out>>

\* write_back: the register file is written
write_back ==
    /\ Running /\ at["write_back"] = "body"
    /\ at' = [at EXCEPT !["write_back"] = "done"]
    /\ IF pipeline.memory.valid
       THEN LET instr == pipeline.memory.instruction
            IN  /\ pipeline' = [pipeline EXCEPT
                       !.write_back.pc = pipeline.memory.pc,
                       !.write_back.valid = TRUE,
                       !.memory.valid = FALSE]
                /\ registers' =
                     CASE instr.type = "R" ->
                            [registers EXCEPT ![instr.rd] = pipeline.execute.alu_result]
                       [] instr.type = "I" ->
                            IF FetchedOpcode = I_TYPE_ALU
                            THEN [registers EXCEPT ![instr.rd] = pipeline.execute.alu_result]
                            ELSE [registers EXCEPT ![instr.rd] = pipeline.memory.result]
                       [] instr.type = "U" ->
                            [registers EXCEPT ![instr.rd] = pipeline.execute.alu_result]
                       [] OTHER -> registers
       ELSE UNCHANGED <<pipeline, registers>>
    /\ UNCHANGED <<entry, checked, data, memop, pc, status, out, faulted>>

Next ==
    \/ MainUsage
    \/ MainLoadFail
    \/ \E text \in Programs : MainLoad(text)
    \/ RunStart
    \/ RunCheck
    \/ StopThreads
    \/ RunPrint
    \/ MainReturn
    \/ \E t \in Stages : WaitPred(t)
    \/ \E t \in Stages : WaitBlock(t)
    \/ \E t \in Stages : SpuriousWake(t)
    \/ fetch
    \/ decode
    \/ ExecuteLatch
    \/ ExecuteCompute
    \/ MemLatch
    \/ MemAccess
    \/ write_back
    \/ Terminate

\* The emulator process: main and the five stage threads, interleaved.
Spec == Init /\ [][Next]_vars

(***************************************************************************)
(* The Memory class called directly, as its unit tests call it.            *)
(***************************************************************************)
MemWidths == {1, 2, 4}

\* Addresses at both ends of the vector and at both ends of uint32_t.
MemAddresses == {0, 1} \cup (MemSize - 4 .. MemSize) \cup (-4 .. -1)

\* uint8_t, uint16_t and uint32_t arguments
MemValues(w) ==
    CASE w = 1 -> {1, 239}
      [] w = 2 -> {258, 48879}
      [] w = 4 -> {Hex(1, 2, 3, 4), Hex(222, 173, 190, 239)}

MemInit ==
    /\ checked \in BOOLEAN
    /\ data = Memory(MemSize)
    /\ memop = NoMemOp
    /\ pc = 0
    /\ registers = ZeroRegisters
    /\ pipeline = NewPipeline(0, 0, 0)
    /\ at = [t \in Stages \cup {"main"} |-> "unborn"]
    /\ status = "running"
    /\ out = <<>>
    /\ faulted = "none"
    /\ entry = NoEntry

\* load_byte, load_half_word or load_word at an address
MemLoad(w, address) ==
    /\ memop.n < MaxMemOps
    /\ LET r == CASE w = 1 -> load_byte(checked, data, address)
                  [] w = 2 -> load_half_word(checked, data, address)
                  [] w = 4 -> load_word(checked, data, address)
       IN  memop' = [n |-> memop.n + 1, op |-> "load", width |-> w,
                     address |-> address, value |-> 0, kind |-> r.kind,
                     result |-> r.value, before |-> data]
    /\ UNCHANGED <<data, checked, pc, registers, pipeline, at, status, out, faulted, entry>>

\* store_byte, store_half_word or store_word of a value at an address
MemStore(w, address, value) ==
    /\ memop.n < MaxMemOps
    /\ LET r == CASE w = 1 -> store_byte(checked, data, address, value)
                  [] w = 2 -> store_half_word(checked, data, address, value)
                  [] w = 4 -> store_word(checked, data, address, value)
       IN  /\ data' = r.data
           /\ memop' = [n |-> memop.n + 1, op |-> "store", width |-> w,
                        address |-> address, value |-> value, kind |-> r.kind,
                        result |-> 0, before |-> data]
    /\ UNCHANGED <<checked, pc, registers, pipeline, at, status, out, faulted, entry>>

MemNext ==
    \/ \E w \in MemWidths, address \in MemAddresses : MemLoad(w, address)
    \/ \E w \in MemWidths, address \in MemAddresses :
          \E value \in MemValues(w) : MemStore(w, address, value)

\* A sequence of calls on one Memory.
MemSpec == MemInit /\ [][MemNext]_vars

\* The same process under a fair scheduler: main and every stage thread
\* that can take a step eventually takes one.  Nothing promises a spurious
\* wake-up.  The fields nothing initialises hold 0.
FairInit == Init /\ checked /\ pipeline = NewPipeline(0, 0, 0)

MainStep ==
    \/ MainUsage \/ MainLoadFail \/ (\E text \in Programs : MainLoad(text))
    \/ RunStart \/ RunCheck \/ StopThreads \/ RunPrint \/ MainReturn

StageStep(t) ==
    \/ WaitPred(t)
    \/ WaitBlock(t)
    \/ (t = "fetch" /\ fetch)
    \/ (t = "decode" /\ decode)
    \/ (t = "execute" /\ (ExecuteLatch \/ ExecuteCompute))
    \/ (t = "mem" /\ (MemLatch \/ MemAccess))
    \/ (t = "write_back" /\ write_back)

FairSpec ==
    /\ FairInit
    /\ [][Next]_vars
    /\ WF_vars(MainStep)
    /\ \A t \in Stages : WF_vars(StageStep(t))
    /\ WF_vars(Terminate)

(***************************************************************************)
(* The execute, mem and write_back stages run on one decoded instruction,  *)
(* from a register file holding chosen operands in x1 and x2.              *)
(***************************************************************************)
\* The values x1 and x2 hold.
Operands == {0, 1, 5, 37, 2147483647, Int32Min, -1}

\* The words of the R-type and the I-type instruction formats.
EncodeR(funct7, rs2, rs1, funct3, rd) ==
    Or32(Shl32(funct7, 25),
         rs2 * 2^20 + rs1 * 2^15 + funct3 * 2^12 + rd * 2^7 + R_TYPE)
EncodeI(opcode, imm, rs1, funct3, rd) ==
    Or32(Shl32(imm % 4096, 20), rs1 * 2^15 + funct3 * 2^12 + rd * 2^7 + opcode)

\* op x3, x1, x2 for every funct3, with funct7 0x00, 0x01, 0x20, and 0x02,
\* which no instruction has; the immediate forms op x3, x1, imm; the shifts
\* by 0, 5, 31 and 37, with and without bit 30; the loads x3, 8(x1); the
\* branches on x1 and x2 by +8 and by -8 for every funct3 a branch has; jal
\* ra, +8, jal x0, +8 and jal x0, +4 (0040006F); jalr x0 and jalr x3 with
\* the offsets 0 and 8 from x1; sw x2, 8(x1) and lui x1.
ExecWords ==
    {EncodeR(f7, 2, 1, f3, 3) : f7 \in {0, 1, 32, 2}, f3 \in 0 .. 7}
    \cup {EncodeI(I_TYPE_ALU, imm, 1, f3, 3) : imm \in {1, -1}, f3 \in {0, 2, 3, 4, 6, 7}}
    \cup {EncodeI(I_TYPE_ALU, imm, 1, 1, 3) : imm \in {0, 5, 31, 37}}
    \cup {EncodeI(I_TYPE_ALU, imm, 1, 5, 3) :
             imm \in {0, 5, 31, 37, 1024, 1029, 1055, 1061}}
    \cup {EncodeI(I_TYPE_LOAD, 8, 1, f3, 3) : f3 \in {0, 1, 2, 4, 5}}
    \cup {Or32(Shl32(o[1], 25),
               2 * 2^20 + 1 * 2^15 + f3 * 2^12 + o[2] * 2^7 + B_TYPE) :
             o \in {<<0, 8>>, <<127, 25>>}, f3 \in {0, 1, 4, 5, 6, 7}}
    \cup {JAL_RA_8, JAL_X0_8, Hex(0, 64, 0, 111)}
    \cup {EncodeI(JALR, imm, 1, 0, rd) : imm \in {0, 8}, rd \in {0, 3}}
    \cup {Hex(0, 32, 164, 35), LUI_X1}

\* A data word of the image: the bytes 80 FF 7F 01 at 8 .. 11.
DataWord == Hex(128, 255, 127, 1)

\* decode has returned: the word is in the fetch register, its variant in
\* the decode register; execute, mem and write_back are about to wait.
ExecInit ==
    /\ checked = TRUE
    /\ memop = NoMemOp
    /\ pc = 4
    /\ \E word \in ExecWords, a \in Operands :
         \E b \in (IF OpcodeOf(word) \in {R_TYPE, B_TYPE} THEN Operands ELSE {0}) :
            /\ data = Loaded(Memory(MemSize), 0, <<word, 0, DataWord>>)
            /\ registers = [ZeroRegisters EXCEPT ![1] = a, ![2] = b]
            /\ pipeline = [NewPipeline(0, Hex(222, 173, 190, 239), Hex(222, 173, 190, 239))
                             EXCEPT !.fetch.instruction = word,
                                    !.decode.decoded_instruction = Decoded(word).instr,
                                    !.decode.valid = TRUE]
    /\ at = [t \in Stages \cup {"main"} |->
                CASE t = "main" -> "run_check"
                  [] t \in {"fetch", "decode"} -> "done"
                  [] OTHER -> "pred"]
    /\ status = "running"
    /\ out = <<[pc |-> 0, registers |-> registers]>>
    /\ faulted = "none"
    /\ entry = [pc |-> 0, registers |-> registers, data |-> data]

ExecNext ==
    \/ \E t \in {"execute", "mem", "write_back"} : WaitPred(t)
    \/ \E t \in {"execute", "mem", "write_back"} : WaitBlock(t)
    \/ ExecuteLatch
    \/ ExecuteCompute
    \/ MemLatch
    \/ MemAccess
    \/ write_back
    \/ Terminate

ExecSpec == ExecInit /\ [][ExecNext]_vars

(***************************************************************************)
(* The decode stage run on one fetched word.                               *)
(***************************************************************************)
\* The words of the formats that carry an immediate, and of opcode 0x17,
\* which decode has no case for: every combination of the bits that bound
\* the fields of the immediates.
DecodeWords ==
    {(b31 * Int32Min)
       + (b30 * 2^30 + b25 * 2^25 + b24 * 2^24 + b21 * 2^21 + b20 * 2^20
          + b19 * 2^19 + b12 * 2^12 + b11 * 2^11 + b8 * 2^8 + b7 * 2^7 + opcode) :
       b31 \in {0, 1}, b30 \in {0, 1}, b25 \in {0, 1}, b24 \in {0, 1},
       b21 \in {0, 1}, b20 \in {0, 1}, b19 \in {0, 1}, b12 \in {0, 1},
       b11 \in {0, 1}, b8 \in {0, 1}, b7 \in {0, 1},
       opcode \in {I_TYPE_LOAD, I_TYPE_ALU, JALR, S_TYPE, B_TYPE, J_TYPE, 23}}

\* fetch has returned: the word is in the fetch register, fetch.valid is
\* set and pc is advanced; decode is about to wait.
DecodeInit ==
    /\ checked = TRUE
    /\ memop = NoMemOp
    /\ pc = 4
    /\ registers = ZeroRegisters
    /\ \E word \in DecodeWords :
         /\ data = Loaded(Memory(MemSize), 0, <<word>>)
         /\ pipeline = [NewPipeline(0, 0, 0) EXCEPT !.fetch.instruction = word,
                                                   !.fetch.valid = TRUE]
    /\ at = [t \in Stages \cup {"main"} |->
                CASE t = "main" -> "run_check"
                  [] t = "fetch" -> "done"
                  [] OTHER -> "pred"]
    /\ status = "running"
    /\ out = <<[pc |-> 0, registers |-> registers]>>
    /\ faulted = "none"
    /\ entry = [pc |-> 0, registers |-> registers, data |-> data]

DecodeNext ==
    \/ WaitPred("decode")
    \/ decode
    \/ Terminate

DecodeSpec == DecodeInit /\ [][DecodeNext]_vars

(***************************************************************************)
(* The stages run with two instructions in flight and the stall signal of  *)
(* detect_hazard.  run() holds the statement pipeline.stall =              *)
(* detect_hazard() in a loop that is commented out: here it runs once,     *)
(* beside the stage threads.                                               *)
(***************************************************************************)
\* The instruction in the execute register: add and addi to x0 and x3, and
\* sw x2, 8(x1), which writes no register.
Producers ==
    {EncodeR(0, 2, 1, 0, rd) : rd \in {0, 3}}
    \cup {EncodeI(I_TYPE_ALU, 5, 0, 0, rd) : rd \in {0, 3}}
    \cup {Hex(0, 32, 164, 35)}

\* The instruction in the decode register: add x4, rs1, rs2 and addi x4,
\* rs1, 3 (whose bits 24..20, the rs2 of an R-type, are 3) for rs1 and rs2
\* among x0 and x3; sw x2, 8(x1); beq x1, x2, +8; lui x1; div x3, x2, x0.
Consumers ==
    {EncodeR(0, rs2, rs1, 0, 4) : rs1 \in {0, 3}, rs2 \in {0, 3}}
    \cup {EncodeI(I_TYPE_ALU, 3, rs1, 0, 4) : rs1 \in {0, 3}}
    \cup {Hex(0, 32, 164, 35), Hex(0, 32, 132, 99), LUI_X1, DIV_X3_0}

\* Two words have been fetched: the first is in the execute register with
\* its result computed, the second in the decode register; the five stage
\* threads are started anew.
StallInit ==
    /\ checked = TRUE
    /\ memop = NoMemOp
    /\ pc = 8
    /\ registers = [ZeroRegisters EXCEPT ![1] = 1, ![2] = 2]
    /\ \E producer \in Producers, consumer \in Consumers :
         /\ data = Loaded(Memory(MemSize), 0, <<producer, consumer>>)
         /\ pipeline = [NewPipeline(0, 0, 0) EXCEPT
                !.fetch = [instruction |-> consumer, pc |-> 4, valid |-> FALSE],
                !.decode = [decoded_instruction |-> Decoded(consumer).instr,
                            pc |-> 4, valid |-> TRUE],
                !.execute = [instruction |-> Decoded(producer).instr, pc |-> 0,
                             alu_result |->
                                 LET instr == Decoded(producer).instr
                                 IN  CASE instr.type = "R" ->
                                            execute_r_type(registers, instr).value
                                       [] instr.type = "I" ->
                                            execute_i_type(registers, instr)
                                       [] OTHER ->
                                            Add32(registers[instr.rs1], instr.imm),
                             valid |-> TRUE]]
    /\ at = [t \in Stages \cup {"main"} |-> IF t = "main" THEN "run" ELSE "pred"]
    /\ status = "running"
    /\ out = <<[pc |-> 0, registers |-> registers]>>
    /\ faulted = "none"
    /\ entry = [pc |-> 0, registers |-> registers, data |-> data]

\* pipeline.stall = detect_hazard();
DetectHazard ==
    /\ Running /\ at["main"] = "run"
    /\ pipeline' = [pipeline EXCEPT !.stall = detect_hazard(pipeline)]
    /\ at' = [at EXCEPT !["main"] = "run_check"]
    /\ UNCHANGED <<entry, checked, data, memop, pc, registers, status, out, faulted>>

StallNext ==
    \/ DetectHazard
    \/ \E t \in Stages : WaitPred(t)
    \/ \E t \in Stages : WaitBlock(t)
    \/ fetch
    \/ decode
    \/ ExecuteLatch
    \/ ExecuteCompute
    \/ MemLatch
    \/ MemAccess
    \/ write_back
    \/ Terminate

StallSpec == StallInit /\ [][StallNext]_vars

(***************************************************************************)
(* The single-threaded emulator: one turn of the loop of its run().        *)
(***************************************************************************)
\* Its decode has no case for LUI.
decode_single(instruction) ==
    IF OpcodeOf(instruction) = U_TYPE
    THEN [kind |-> "runtime_error", instr |-> RType(0, 0, 0, 0, 0)]
    ELSE Decoded(instruction)

\* The switch of execute_r_type has a case for the funct3 and funct7.
HasCase(instr) ==
    \/ instr.funct7 = 0
    \/ instr.funct7 = 32 /\ instr.funct3 \in {0, 5}
    \/ instr.funct7 = 1 /\ instr.funct3 \in {0, 1, 2, 3, 4, 6, 7}

Machine(k, p, regs, d) == [kind |-> k, pc |-> p, registers |-> regs, data |-> d]

\* execute_load: the machine after it
execute_load(chk, regs, p, d, instr) ==
    LET address == Add32(regs[instr.rs1], instr.imm)
        Loaded1(r, v) == IF r.kind = "ok"
                         THEN Machine("ok", p, [regs EXCEPT ![instr.rd] = v], d)
                         ELSE Machine(r.kind, p, regs, d)
    IN  CASE instr.funct3 = 0 ->
               LET r == load_byte(chk, d, address) IN Loaded1(r, SExt8(r.value))
          [] instr.funct3 = 1 ->
               LET r == load_half_word(chk, d, address) IN Loaded1(r, SExt16(r.value))
          [] instr.funct3 = 2 ->
               LET r == load_word(chk, d, address) IN Loaded1(r, r.value)
          [] OTHER -> Machine("ok", p, regs, d)

\* execute_store: the machine after it
execute_store(chk, regs, p, d, instr) ==
    LET address == Add32(regs[instr.rs1], instr.imm)
        Stored1(r) == Machine(r.kind, p, regs, r.data)
    IN  CASE instr.funct3 = 0 ->
               Stored1(store_byte(chk, d, address, And32(regs[instr.rs2], 255)))
          [] instr.funct3 = 1 ->
               Stored1(store_half_word(chk, d, address, And32(regs[instr.rs2], 65535)))
          [] instr.funct3 = 2 ->
               Stored1(store_word(chk, d, address, regs[instr.rs2]))
          [] OTHER -> Machine("ok", p, regs, d)

\* One turn of the loop: fetch at p, decode, execute, and pc += 4 unless
\* the word is ret.
run_single(chk, regs, p, d) ==
    LET f == load_word(chk, d, p)
        dec == decode_single(f.value)
        instr == dec.instr
        m == CASE instr.type = "R" ->
                    LET r == execute_r_type(regs, instr)
                    IN  IF r.kind \in {"ok", "ub"}
                        THEN Machine("ok", p,
                                 IF HasCase(instr)
                                 THEN [regs EXCEPT ![instr.rd] = r.value]
                                 ELSE regs, d)
                        ELSE Machine(r.kind, p, regs, d)
               [] instr.type = "I" ->
                    IF OpcodeOf(f.value) = I_TYPE_LOAD
                    THEN execute_load(chk, regs, p, d, instr)
                    ELSE Machine("ok", p,
                             [regs EXCEPT ![instr.rd] = execute_i_type(regs, instr)], d)
               [] instr.type = "J" ->
                    LET r == execute_j_type(regs, p, instr)
                    IN  Machine("ok", r.pc, r.registers, d)
               [] instr.type = "S" -> execute_store(chk, regs, p, d, instr)
               [] instr.type = "B" ->
                    Machine("ok", execute_b_type(regs, p, instr), regs, d)
               [] OTHER -> Machine("runtime_error", p, regs, d)
    IN  IF f.kind # "ok" THEN Machine(f.kind, p, regs, d)
        ELSE IF dec.kind # "ok" THEN Machine(dec.kind, p, regs, d)
        ELSE IF m.kind # "ok" \/ f.value = RET THEN m
        ELSE [m EXCEPT !.pc = Add32(m.pc, 4)]

(***************************************************************************)
(* The properties.                                                         *)
(***************************************************************************)
\* run() returned to main
RunReturned == at["main"] = "return"

\* every stage function returned
StagesDone == \A t \in Stages : at[t] \in {"done", "joined"}

\* the program counted on in the addition scenario is the one loaded
AdditionLoaded ==
    /\ entry.data # <<>>
    /\ load_word(TRUE, entry.data, 0).value = ADDI_X1_5
    /\ load_word(TRUE, entry.data, 4).value = ADDI_X2_10
    /\ load_word(TRUE, entry.data, 8).value = ADD_X3
    /\ load_word(TRUE, entry.data, 12).value = RET

\* C1: register x0 holds 0 in every state: no write-back and no jump-and-link
\* with destination index 0 changes it.
C1_X0HoldsZero == registers[0] = 0

\* C2: run() returns only after a ret was committed by write_back.
C2_HaltsOnlyOnRet ==
    RunReturned =>
        /\ at["write_back"] \in {"done", "joined"}
        /\ pipeline.write_back.valid
        /\ pipeline.fetch.instruction = RET
        /\ pipeline.memory.instruction = Decoded(RET).instr

\* C3: when run() returns from the program addi x1,x0,5; addi x2,x0,10;
\* add x3,x1,x2; ret the registers hold x1 = 5, x2 = 10, x3 = 15.
C3_AdditionCommitted ==
    (RunReturned /\ AdditionLoaded) =>
        registers[1] = 5 /\ registers[2] = 10 /\ registers[3] = 15

\* C4: while the process runs, a stage thread blocked on its condition
\* variable with the valid flag it waits for true eventually leaves the wait.
C4_NoLostWakeup ==
    \A t \in Stages :
        (Running /\ at[t] = "blocked" /\ Pred(t)) ~> (~Running \/ at[t] # "blocked")

\* C5: when the five stage functions have returned, pc, register file and
\* memory are those one turn of the single-threaded loop leaves from the same
\* start, for every instruction that loop executes without a fault.
C5_SameAsSingleThreaded ==
    LET m == run_single(checked, entry.registers, entry.pc, entry.data)
    IN  (StagesDone /\ m.kind = "ok") =>
            pc = m.pc /\ registers = m.registers /\ data = m.data

\* C6: when run() has returned, each of the five stage threads has exited
\* and been joined.
C6_JoinedOnReturn == RunReturned => \A t \in Stages : at[t] = "joined"

\* C7: the process ends with exit code 0 when nothing failed and with exit
\* code 1 when a fault, a loader failure or a usage error was raised.
C7_ExitCode ==
    ~Running => status = (IF faulted = "none" THEN "exit0" ELSE "exit1")

\* C8: a process that ended after a fault in a stage has printed the final
\* register state: the last dump is the pc and registers it ended with.
C8_FinalStatePrinted ==
    (~Running /\ faulted \in {"runtime_error", "out_of_range"}) =>
        Len(out) = 2 /\ out[2] = Dump

\* a + w <= size, a an unsigned 32-bit address
Fits(address, w) == address >= 0 /\ address + w <= MemSize

\* C9: a load or store of width w at address a succeeds exactly when
\* a + w <= size, and fails with an out-of-range error otherwise.
C9_BoundsChecked ==
    memop.op # "none" =>
        /\ (memop.kind = "ok") = Fits(memop.address, memop.width)
        /\ memop.kind \in {"ok", "out_of_range"}

\* C10: after store_word(A, v) the bytes at A .. A+3 are the bytes of v in
\* ascending significance.
C10_LittleEndian ==
    (memop.op = "store" /\ memop.width = 4 /\ memop.kind = "ok") =>
        \A k \in 0 .. 3 : data[memop.address + k] = ByteOf(memop.value, k)

\* the program sw x2, 16(x0); lw x5, 16(x0); ret is the one loaded
StoreLoadLoaded ==
    /\ entry.data # <<>>
    /\ load_word(TRUE, entry.data, 0).value = SW_SP_16
    /\ load_word(TRUE, entry.data, 4).value = LW_X5_16
    /\ load_word(TRUE, entry.data, 8).value = RET

\* C11: when the stages have returned from the program sw x2, 16(x0);
\* lw x5, 16(x0); ret, x5 holds the value of x2 that the store wrote.
C11_StoreThenLoad ==
    (StagesDone /\ StoreLoadLoaded) => registers[5] = entry.registers[2]

\* The opcodes of the opcode table of the specification (AUIPC, 0x17, among
\* them).
TableOpcodes == {R_TYPE, I_TYPE_ALU, I_TYPE_LOAD, JALR, S_TYPE, B_TYPE, J_TYPE, U_TYPE, 23}

\* the all-zero word, or a word whose opcode is not in the table
IllegalWord(instruction) ==
    instruction = 0 \/ OpcodeOf(instruction) \notin TableOpcodes

\* decode has left its stage function, by return or by exception
DecodeLeft == at["decode"] \in {"done", "joined", "threw"}

\* C12: once decode has handled an all-zero word or a word whose opcode is
\* not in the table, it has thrown its error, the decode register is not
\* valid, and registers and memory are those run() started with; the pc is
\* the one fetch left, the entry pc plus 4.
C12_IllegalRejected ==
    (DecodeLeft /\ IllegalWord(pipeline.fetch.instruction)) =>
        /\ at["decode"] = "threw"
        /\ faulted = "runtime_error"
        /\ ~pipeline.decode.valid
        /\ registers = entry.registers
        /\ data = entry.data
        /\ pc = Add32(entry.pc, 4)

\* decode threw on the all-zero word; on a word of an unknown opcode
C12_ZeroWordRejected ==
    at["decode"] = "threw" /\ pipeline.fetch.instruction = 0
C12_UnknownOpcodeRejected ==
    at["decode"] = "threw" /\ pipeline.fetch.instruction = ECALL

(***************************************************************************)
(* The instruction tables of the specification, read from the word in the  *)
(* fetch register.                                                         *)
(***************************************************************************)
\* bits lo .. lo+n-1 of a word (\div rounds down: two's complement bits)
FieldOf(word, lo, n) == (word \div 2^lo) % 2^n

W == pipeline.fetch.instruction
WOpcode == FieldOf(W, 0, 7)
WFunct3 == FieldOf(W, 12, 3)
WFunct7 == FieldOf(W, 25, 7)
\* the values of rs1 and rs2, and the sign-extended 12-bit immediate
WRs1 == registers[FieldOf(W, 15, 5)]
WRs2 == registers[FieldOf(W, 20, 5)]
WImm == LET u == FieldOf(W, 20, 12) IN IF u >= 2048 THEN u - 4096 ELSE u

\* a + b and a - b modulo 2^32, on int32_t bit patterns
WrapAdd(a, b) ==
    IF b >= 0
    THEN (IF a > 2147483647 - b
          THEN (a - 2147483647 - 1) + (b - 2147483647 - 1) ELSE a + b)
    ELSE (IF a < Int32Min - b
          THEN (a + 2147483647 + 1) + (b + 2147483647 + 1) ELSE a + b)
WrapSub(a, b) ==
    IF b = Int32Min THEN WrapAdd(WrapAdd(a, 2147483647), 1) ELSE WrapAdd(a, -b)

\* a < b as unsigned 32-bit values
UnsignedLess(a, b) ==
    IF (a >= 0) = (b >= 0) THEN a < b ELSE a >= 0

\* r is a op b bit by bit: bits 0 .. 30, and bit 31, the sign
BitRule(op, x, y) ==
    CASE op = "and" -> x /\ y
      [] op = "or"  -> x \/ y
      [] op = "xor" -> x # y
IsBitwise(op, r, a, b) ==
    /\ \A i \in 0 .. 30 :
          (FieldOf(r, i, 1) = 1) = BitRule(op, FieldOf(a, i, 1) = 1, FieldOf(b, i, 1) = 1)
    /\ (r < 0) = BitRule(op, a < 0, b < 0)

\* execute has left its stage function; it returns in this step
ExecuteLeft == at["execute"] \in {"done", "joined", "threw"}
ExecuteReturns == at["execute"] = "compute" /\ at'["execute"] = "done"

\* the (funct3, funct7) pairs of the R-type table
InRTable == WFunct7 \in {0, 1} \/ (WFunct7 = 32 /\ WFunct3 \in {0, 5})

\* C13: once execute has handled an R-type word whose (funct3, funct7) pair
\* is not in the R-type table, it has thrown, and no register has changed.
C13_UnknownPairFaults ==
    (ExecuteLeft /\ WOpcode = R_TYPE /\ ~InRTable) =>
        at["execute"] = "threw" /\ registers = entry.registers

\* DIV, DIVU, REM or REMU is in the fetch register
IsDivRem == WOpcode = R_TYPE /\ WFunct7 = 1 /\ WFunct3 \in 4 .. 7

\* C14: once execute has handled DIV, DIVU, REM or REMU with rs2 = 0, it has
\* returned without a fault and the result is 0xFFFFFFFF for DIV and DIVU and
\* the value of rs1 for REM and REMU.
C14_DivisionByZero ==
    (ExecuteLeft /\ IsDivRem /\ WRs2 = 0) =>
        /\ at["execute"] # "threw"
        /\ pipeline.execute.alu_result = (IF WFunct3 \in {4, 5} THEN -1 ELSE WRs1)

\* C15: when execute has returned from DIV, DIVU, REM or REMU with rs2 # 0,
\* the result is the truncating signed quotient or remainder (INT32_MIN and
\* 0 for INT32_MIN / -1), or the unsigned quotient or remainder.
C15_Division ==
    (at["execute"] = "done" /\ IsDivRem /\ WRs2 # 0) =>
        pipeline.execute.alu_result =
            CASE WFunct3 = 4 -> IF Overflows(WRs1, WRs2) THEN Int32Min
                                ELSE SDiv32(WRs1, WRs2)
              [] WFunct3 = 5 -> UDiv32(WRs1, WRs2)
              [] WFunct3 = 6 -> IF Overflows(WRs1, WRs2) THEN 0
                                ELSE SRem32(WRs1, WRs2)
              [] WFunct3 = 7 -> URem32(WRs1, WRs2)

\* the high 32 bits of sext(a) * zext(b) and of sext(a) * sext(b): with
\* sext(a) = zext(a) - 2^32 for a negative a, the unsigned high word less b,
\* and less a for a negative b
MulHiSU(a, b) == Sub32(MulHiU32(a, b), IF a < 0 THEN b ELSE 0)
MulHiS(a, b) == Sub32(MulHiSU(a, b), IF b < 0 THEN a ELSE 0)

\* C16: when execute has returned from MUL, MULH, MULHSU or MULHU, the result
\* is the low 32 bits of the product, or the high 32 bits of the product of
\* the operands extended as the instruction says.
C16_Multiplication ==
    (at["execute"] = "done" /\ WOpcode = R_TYPE /\ WFunct7 = 1 /\ WFunct3 \in 0 .. 3) =>
        pipeline.execute.alu_result =
            CASE WFunct3 = 0 -> MulLo32(WRs1, WRs2)
              [] WFunct3 = 1 -> MulHiS(WRs1, WRs2)
              [] WFunct3 = 2 -> MulHiSU(WRs1, WRs2)
              [] WFunct3 = 3 -> MulHiU32(WRs1, WRs2)

\* ADD, SUB, SLT, SLTU, XOR, OR, AND, or one of their immediate forms, is in
\* the fetch register
IsArithmetic ==
    \/ WOpcode = R_TYPE /\ WFunct7 = 0 /\ WFunct3 \in {0, 2, 3, 4, 6, 7}
    \/ WOpcode = R_TYPE /\ WFunct7 = 32 /\ WFunct3 = 0
    \/ WOpcode = I_TYPE_ALU /\ WFunct3 \in {0, 2, 3, 4, 6, 7}

\* r is the table's result for the instruction in the fetch register
IsTableResult(r) ==
    LET a == WRs1
        b == IF WOpcode = R_TYPE THEN WRs2 ELSE WImm
    IN  CASE WFunct3 = 0 -> r = (IF WOpcode = R_TYPE /\ WFunct7 = 32
                                 THEN WrapSub(a, b) ELSE WrapAdd(a, b))
          [] WFunct3 = 2 -> r = (IF a < b THEN 1 ELSE 0)
          [] WFunct3 = 3 -> r = (IF UnsignedLess(a, b) THEN 1 ELSE 0)
          [] WFunct3 = 4 -> IsBitwise("xor", r, a, b)
          [] WFunct3 = 6 -> IsBitwise("or", r, a, b)
          [] WFunct3 = 7 -> IsBitwise("and", r, a, b)

\* C17: the value execute returns with for ADD, SUB, SLT, SLTU, XOR, OR, AND
\* and ADDI, SLTI, SLTIU, XORI, ORI, ANDI is the table's result on wrapping
\* 32-bit values, the second operand of an immediate form being the
\* sign-extended immediate.
C17_Arithmetic ==
    [][(ExecuteReturns /\ IsArithmetic) =>
           IsTableResult(pipeline'.execute.alu_result)]_vars

\* execute returned from add x3, x1, x2 with 0x7FFFFFFF and 1: 0x80000000
C17_AddWraps ==
    /\ at["execute"] = "done"
    /\ W = EncodeR(0, 2, 1, 0, 3)
    /\ registers[1] = 2147483647 /\ registers[2] = 1
    /\ pipeline.execute.alu_result = Int32Min

\* SLL, SRL, SRA, or SLLI, SRLI, SRAI, is in the fetch register
IsShift ==
    \/ WOpcode = R_TYPE /\ WFunct7 = 0 /\ WFunct3 \in {1, 5}
    \/ WOpcode = R_TYPE /\ WFunct7 = 32 /\ WFunct3 = 5
    \/ WOpcode = I_TYPE_ALU /\ WFunct3 \in {1, 5}

\* the shift operand: the value of rs2, or the immediate
ShiftOperand == IF WOpcode = R_TYPE THEN WRs2 ELSE WImm

\* the result of the same shift with 32 added to its shift operand (for an
\* immediate, bit 5 of the immediate flipped)
ShiftedBy32More ==
    LET decoded == pipeline.decode.decoded_instruction
    IN  IF WOpcode = R_TYPE
        THEN execute_r_type([registers EXCEPT ![decoded.rs2] = WrapAdd(WRs2, 32)],
                            decoded).value
        ELSE execute_i_type(registers,
                 [decoded EXCEPT !.imm = IF FieldOf(WImm, 5, 1) = 0
                                         THEN WImm + 32 ELSE WImm - 32])

\* C18: the value execute returns with for a shift is the value the same
\* shift gives with 32 added to its shift operand, and is the value of rs1
\* when the low 5 bits of the shift operand are 0.
C18_ShiftLowFiveBits ==
    [][(ExecuteReturns /\ IsShift) =>
           /\ pipeline'.execute.alu_result = ShiftedBy32More
           /\ (FieldOf(ShiftOperand, 0, 5) = 0 => pipeline'.execute.alu_result = WRs1)]_vars

\* execute returned from sll x3, x1, x2 with x1 = 5 and x2 = 37: 5 << 5
C18_ShiftBy37 ==
    /\ at["execute"] = "done"
    /\ W = EncodeR(0, 2, 1, 1, 3)
    /\ registers[1] = 5 /\ registers[2] = 37
    /\ pipeline.execute.alu_result = 160

\* C19: when execute has returned from a right shift by an immediate, the
\* result is the arithmetic shift of rs1 when bit 30 of the word is 1 and
\* the logical shift when it is 0.
C19_ShiftRightImmediate ==
    (at["execute"] = "done" /\ WOpcode = I_TYPE_ALU /\ WFunct3 = 5) =>
        pipeline.execute.alu_result =
            (IF FieldOf(W, 30, 1) = 1
             THEN Sar32(WRs1, FieldOf(W, 20, 5))
             ELSE Shr32(WRs1, FieldOf(W, 20, 5)))

\* the width of the load in the fetch register; its effective address
LoadWidth == CASE WFunct3 \in {0, 4} -> 1 [] WFunct3 \in {1, 5} -> 2 [] OTHER -> 4
LoadAddress == WrapAdd(WRs1, WImm)

\* the byte, half-word or word at the effective address, extended as the
\* load in the fetch register says
LoadedValue ==
    CASE WFunct3 = 0 -> SExt8(load_byte(checked, data, LoadAddress).value)
      [] WFunct3 = 1 -> SExt16(load_half_word(checked, data, LoadAddress).value)
      [] WFunct3 = 2 -> load_word(checked, data, LoadAddress).value
      [] WFunct3 = 4 -> load_byte(checked, data, LoadAddress).value
      [] WFunct3 = 5 -> load_half_word(checked, data, LoadAddress).value

\* C20: when mem returns from a load after execute has computed the address,
\* the value it hands to write_back for rd is the byte or half-word at
\* rs1 + sext(imm) sign-extended for LB and LH, zero-extended for LBU and
\* LHU, and the word for LW.
C20_LoadExtends ==
    [][(/\ at["mem"] = "access" /\ at'["mem"] = "done"
        /\ at["execute"] = "done"
        /\ WOpcode = I_TYPE_LOAD /\ WFunct3 \in {0, 1, 2, 4, 5}
        /\ Fits(LoadAddress, LoadWidth)) =>
           /\ pipeline'.memory.result = LoadedValue
           /\ pipeline'.write_back.result = LoadedValue
           /\ pipeline'.write_back.rd = FieldOf(W, 7, 5)]_vars

\* bit 31 of a word
Inst31(word) == IF word < 0 THEN 1 ELSE 0

\* the address of the instruction in the fetch register
WAddress == pipeline.fetch.pc

\* {inst[31], inst[7], inst[30:25], inst[11:8], 0} sign-extended from 13 bits
BImmediate(word) ==
    2048 * FieldOf(word, 7, 1) + 32 * FieldOf(word, 25, 6)
    + 2 * FieldOf(word, 8, 4) - 4096 * Inst31(word)

\* the condition of the branch in the fetch register
BranchTaken ==
    CASE WFunct3 = 0 -> WRs1 = WRs2
      [] WFunct3 = 1 -> WRs1 # WRs2
      [] WFunct3 = 4 -> WRs1 < WRs2
      [] WFunct3 = 5 -> WRs1 >= WRs2
      [] WFunct3 = 6 -> UnsignedLess(WRs1, WRs2)
      [] WFunct3 = 7 -> ~UnsignedLess(WRs1, WRs2)

\* C21: while a branch is in the pipeline no step writes a register, and when
\* execute returns from it pc is the address of the branch plus its
\* sign-extended immediate if its condition holds (BEQ, BNE, BLT and BGE
\* signed, BLTU and BGEU unsigned) and the address plus 4 if not.
C21_Branch ==
    [][(WOpcode = B_TYPE /\ WFunct3 \in {0, 1, 4, 5, 6, 7}) =>
          /\ registers' = registers
          /\ ExecuteReturns =>
                pc' = (IF BranchTaken THEN WrapAdd(WAddress, BImmediate(W))
                       ELSE WrapAdd(WAddress, 4))]_vars

\* the program of the branch scenario is the one loaded
BranchLoaded ==
    /\ entry.data # <<>>
    /\ \A i \in 1 .. Len(BranchScenario) :
          load_word(TRUE, entry.data, 4 * (i - 1)).value = BranchScenario[i]

\* C22: when the stages have returned from the program addi x1, x0, 1;
\* addi x2, x0, 1; beq x1, x2, +8; addi x3, x0, 3; addi x4, x0, 4, the taken
\* branch has discarded the addi to x3 behind it and the fetch at its target
\* has run the addi to x4: x3 = 0 and x4 = 4.
C22_BranchSkips ==
    (StagesDone /\ BranchLoaded) => (registers[3] = 0 /\ registers[4] = 4)

\* {inst[31], inst[19:12], inst[20], inst[30:21], 0} sign-extended from 21
\* bits
JImmediate(word) ==
    4096 * FieldOf(word, 12, 8) + 2048 * FieldOf(word, 20, 1)
    + 2 * FieldOf(word, 21, 10) - 1048576 * Inst31(word)

\* the index of rd in the word in the fetch register
WRd == FieldOf(W, 7, 5)

\* C23: when execute and write_back have returned from a jal, pc is the
\* address of the jal plus its sign-extended immediate, and rd, when it is
\* not x0, holds the address of the jal plus 4.
C23_JumpAndLink ==
    (at["execute"] = "done" /\ at["write_back"] = "done" /\ WOpcode = J_TYPE) =>
        /\ pc = WrapAdd(WAddress, JImmediate(W))
        /\ WRd # 0 => registers[WRd] = WrapAdd(WAddress, 4)

\* (rs1 + sext(imm)) & ~1 for the word in the fetch register
JalrTarget == LET t == WrapAdd(WRs1, WImm) IN t - (t % 2)

\* C24: when execute and write_back have returned from a jalr, pc is
\* (rs1 + sext(imm)) & ~1, with rd = x0 as with any other rd, and rd, when it
\* is not x0, holds the address of the jalr plus 4.
C24_JumpAndLinkRegister ==
    (at["execute"] = "done" /\ at["write_back"] = "done" /\ WOpcode = JALR) =>
        /\ pc = JalrTarget
        /\ WRd # 0 => registers[WRd] = WrapAdd(WAddress, 4)

\* the immediate decode stored in the decode register
DecodedImm == pipeline.decode.decoded_instruction.imm

\* {inst[31:25], inst[11:7]} sign-extended from 12 bits
SImmediate(word) ==
    32 * FieldOf(word, 25, 6) + FieldOf(word, 7, 5) - 2048 * Inst31(word)

\* C25: when decode has returned from a load, an immediate ALU or a jalr
\* word, the immediate it stored is inst[31:20] sign-extended from 12 bits,
\* and from a store word {inst[31:25], inst[11:7]} sign-extended from 12
\* bits; both lie in -2048 .. 2047.
C25_ImmediatesIS ==
    (at["decode"] = "done" /\ WOpcode \in {I_TYPE_LOAD, I_TYPE_ALU, JALR, S_TYPE}) =>
        /\ DecodedImm = (IF WOpcode = S_TYPE THEN SImmediate(W) ELSE WImm)
        /\ DecodedImm \in -2048 .. 2047

\* decode has returned from a store word whose bits 31 and 7 are set and
\* whose other immediate bits are clear, with the immediate -2047; and from
\* an I-type word with bits 31 and 20 set, with the immediate -2047
C25_NegativeImmediates ==
    /\ at["decode"] = "done"
    /\ DecodedImm = -2047
    /\ W \in {Int32Min + 128 + S_TYPE, Int32Min + 2^20 + I_TYPE_ALU}

\* C26: when decode has returned from a branch word, the immediate it stored
\* is {inst[31], inst[7], inst[30:25], inst[11:8], 0} sign-extended from 13
\* bits: even, in -4096 .. 4094, its bit 11 being inst[7].
C26_ImmediateB ==
    (at["decode"] = "done" /\ WOpcode = B_TYPE) =>
        /\ DecodedImm = BImmediate(W)
        /\ DecodedImm % 2 = 0
        /\ DecodedImm \in -4096 .. 4094
        /\ FieldOf(DecodedImm, 11, 1) = FieldOf(W, 7, 1)

\* C27: when decode has returned from a jal word, the immediate it stored is
\* {inst[31], inst[19:12], inst[20], inst[30:21], 0} sign-extended from 21
\* bits: its bit 0 is 0 and its bits 10..1 are inst[30:21].
C27_ImmediateJ ==
    (at["decode"] = "done" /\ WOpcode = J_TYPE) =>
        /\ DecodedImm = JImmediate(W)
        /\ DecodedImm % 2 = 0
        /\ FieldOf(DecodedImm, 1, 10) = FieldOf(W, 21, 10)

\* the registers an instruction reads; the register it writes
SourcesOf(instr) ==
    CASE instr.type \in {"R", "S", "B"} -> {instr.rs1, instr.rs2}
      [] instr.type = "I" -> {instr.rs1}
      [] OTHER -> {}
DestinationOf(instr) ==
    IF instr.type \in {"R", "I", "U", "J"} THEN {instr.rd} ELSE {}

\* the instruction in the decode register reads a register that an
\* instruction in the execute or the memory register is still to write
Hazard ==
    /\ pipeline.decode.valid
    /\ \E r \in SourcesOf(pipeline.decode.decoded_instruction) :
          \/ pipeline.execute.valid /\ r \in DestinationOf(pipeline.execute.instruction)
          \/ pipeline.memory.valid /\ r \in DestinationOf(pipeline.memory.instruction)

\* C28: whenever the instruction in the decode register reads a register an
\* instruction in a later stage is still to write, detect_hazard returns
\* true and pipeline.stall is set; and a later instruction observes the
\* register writes of the earlier ones: when the stages have returned from
\* addi x1, x0, 5; addi x2, x0, 10; add x3, x1, x2; ret, the add has read 5
\* and 10 and x3 holds 15.
C28_HazardStalls ==
    /\ Hazard => (detect_hazard(pipeline) /\ pipeline.stall)
    /\ (StagesDone /\ AdditionLoaded) =>
          (registers[1] = 5 /\ registers[2] = 10 /\ registers[3] = 15)

\* the offset of the branch or the jal in the fetch register is a multiple
\* of 4
OffsetAligned ==
    /\ WOpcode = B_TYPE => BImmediate(W) % 4 = 0
    /\ WOpcode = J_TYPE => JImmediate(W) % 4 = 0

C30_FrameOfEarlyStages ==
    [][(fetch \/ decode \/ ExecuteLatch \/ ExecuteCompute) =>
          (registers' = registers /\ data' = data)]_vars

\* the fields of a pipeline register other than its valid flag, which the
\* consumer clears
ContentsOf(register) == [register EXCEPT !.valid = FALSE]

\* a step by which the stage function named t acts on the pipeline
StepOf(t) ==
    CASE t = "fetch"      -> fetch
      [] t = "decode"     -> decode
      [] t = "execute"    -> ExecuteLatch \/ ExecuteCompute
      [] t = "memory"     -> MemLatch \/ MemAccess
      [] t = "write_back" -> write_back

\* C31: the contents of each pipeline register (fetch, decode, execute,
\* memory, write_back) are written by one stage only, the one that produces
\* it: no step of another stage changes a field of it.
C31_SingleWriter ==
    [][\A t \in {"fetch", "decode", "execute", "memory", "write_back"} :
          ContentsOf(pipeline'[t]) # ContentsOf(pipeline[t]) => StepOf(t)]_vars

\* What the next step of thread t reads and writes, among the fields of the
\* pipeline registers, pc and the register file ("registers"); the valid
\* flags aside.  "fetch" and "decode" stand for all fields of the register,
\* which its producer writes together.
Reading(t) ==
    CASE t = "fetch" /\ at[t] = "body" /\ Pred(t) -> {"pc"}
      [] t = "decode" /\ at[t] = "body" /\ Pred(t) -> {"fetch"}
      [] t = "execute" /\ at[t] = "body" /\ Pred(t) -> {"decode"}
      [] t = "execute" /\ at[t] = "compute" ->
           LET type == pipeline.decode.decoded_instruction.type
           IN  {"decode"}
               \cup (IF type = "I" THEN {"fetch"} ELSE {})
               \cup (IF type \in {"R", "I", "S", "B"} THEN {"registers"} ELSE {})
               \cup (IF type \in {"J", "B"} THEN {"pc"} ELSE {})
      [] t = "mem" /\ at[t] = "body" /\ Pred(t) -> {"execute.instruction"}
      [] t = "mem" /\ at[t] = "access" ->
           LET type == pipeline.execute.instruction.type
           IN  {"execute.instruction"}
               \cup (IF type = "I" THEN {"fetch"} ELSE {})
               \cup (IF type = "S" \/ (type = "I" /\ FetchedOpcode = I_TYPE_LOAD)
                     THEN {"execute.alu_result"} ELSE {})
               \cup (IF type = "S" THEN {"registers"} ELSE {})
      [] t = "write_back" /\ at[t] = "body" /\ Pred(t) ->
           LET type == pipeline.memory.instruction.type
           IN  {"memory.instruction"}
               \cup (IF type = "I" THEN {"fetch"} ELSE {})
               \cup (IF type \in {"R", "U"} \/ (type = "I" /\ FetchedOpcode = I_TYPE_ALU)
                     THEN {"execute.alu_result"} ELSE {})
               \cup (IF type = "I" /\ FetchedOpcode # I_TYPE_ALU
                     THEN {"memory.result"} ELSE {})
      [] t = "main" /\ at[t] = "run_check" -> {"fetch"}
      [] t = "main" /\ at[t] = "run_print" -> {"pc", "registers"}
      [] OTHER -> {}
Writing(t) ==
    CASE t = "fetch" /\ at[t] = "body" /\ Pred(t) -> {"fetch", "pc"}
      [] t = "decode" /\ at[t] = "body" /\ Pred(t) -> {"decode"}
      [] t = "execute" /\ at[t] = "body" /\ Pred(t) -> {"execute.instruction"}
      [] t = "execute" /\ at[t] = "compute" ->
           LET type == pipeline.decode.decoded_instruction.type
           IN  CASE type = "J" -> {"registers", "pc"}
                 [] type = "B" -> {"pc"}
                 [] OTHER -> {"execute.alu_result"}
      [] t = "mem" /\ at[t] = "body" /\ Pred(t) -> {"memory.instruction"}
      [] t = "mem" /\ at[t] = "access" ->
           IF pipeline.execute.instruction.type = "I" /\ FetchedOpcode = I_TYPE_LOAD
           THEN {"memory.result", "write_back"} ELSE {}
      [] t = "write_back" /\ at[t] = "body" /\ Pred(t) ->
           {"write_back"}
           \cup (IF pipeline.memory.instruction.type \in {"R", "I", "U"}
                 THEN {"registers"} ELSE {})
      [] OTHER -> {}

\* two threads are about to access the same object, one of them writing it
Conflict(t, u) == Writing(t) \cap (Reading(u) \cup Writing(u)) # {}

\* C32: in no state are two threads, each in the region it runs under its
\* lock, or main in run(), about to access the same field of a pipeline
\* register, pc or the register file with one of them writing: a common lock
\* keeps them apart.
C32_NoConcurrentAccess ==
    Running => \A t, u \in Stages \cup {"main"} : t # u => ~Conflict(t, u)

\* the valid flags of the fetch, decode, execute and memory registers
ValidFlags(p) == <<p.fetch.valid, p.decode.valid, p.execute.valid, p.memory.valid>>

\* the flags when the instruction is in register k: 0 not fetched yet, 1 ..
\* 4 the fetch, decode, execute, memory register, 5 consumed by write_back
TokenAt(k) == [i \in 1 .. 4 |-> i = k]

\* the thread that moves the instruction into register k
Mover(k) ==
    CASE k = 1 -> "fetch" [] k = 2 -> "decode" [] k = 3 -> "execute"
      [] k = 4 -> "mem" [] k = 5 -> "write_back"

\* the input register of a stage; the state a stage may change
InputOf(t) ==
    CASE t = "decode" -> pipeline.fetch [] t = "execute" -> pipeline.decode
      [] t = "mem" -> pipeline.execute [] t = "write_back" -> pipeline.memory
Machine5 == <<pipeline, registers, data, pc>>

WriteBackCommits ==
    at["write_back"] = "body" /\ at'["write_back"] = "done" /\ pipeline.memory.valid

\* C35: the value write_back writes to rd is the result of the instruction
\* it commits: for ADD, SUB, SLT, SLTU, XOR, OR, AND and their immediate
\* forms the table's result on rs1 and rs2 or the immediate, for a load the
\* extended byte, half-word or word at rs1 + sext(imm).
C35_CommitsOwnResult ==
    [][WriteBackCommits =>
          /\ IsArithmetic => IsTableResult(registers'[WRd])
          /\ (WOpcode = I_TYPE_LOAD /\ WFunct3 \in {0, 1, 2, 4, 5}
              /\ Fits(LoadAddress, LoadWidth)) => registers'[WRd] = LoadedValue]_vars

\* the width of the store in the fetch register; its effective address
StoreWidth == CASE WFunct3 = 0 -> 1 [] WFunct3 = 1 -> 2 [] OTHER -> 4
StoreAddress == WrapAdd(WRs1, SImmediate(W))

\* a step by which mem returns from its access
MemReturns == at["mem"] = "access" /\ at'["mem"] = "done"

\* C36: when mem returns from SB, SH or SW whose bytes lie inside the
\* memory, the bytes at rs1 + sext(imm) .. + w - 1 hold the low 8, 16 or 32
\* bits of rs2 (the load of that width reads them back), and every other
\* memory byte, every register and pc are unchanged.
C36_StoreFrame ==
    [][(MemReturns /\ WOpcode = S_TYPE /\ WFunct3 \in {0, 1, 2}
        /\ Fits(StoreAddress, StoreWidth)) =>
          /\ \A a \in DOMAIN data :
                a \notin StoreAddress .. StoreAddress + StoreWidth - 1 =>
                    data'[a] = data[a]
          /\ CASE WFunct3 = 0 ->
                    load_byte(TRUE, data', StoreAddress).value = WRs2 % 256
               [] WFunct3 = 1 ->
                    load_half_word(TRUE, data', StoreAddress).value = WRs2 % 65536
               [] OTHER -> load_word(TRUE, data', StoreAddress).value = WRs2
          /\ registers' = registers
          /\ pc' = pc]_vars

\* the instruction in the decode register reads a register other than x0
\* that the instruction in the execute register writes
GenuineDependency ==
    \E r \in SourcesOf(pipeline.decode.decoded_instruction) :
        r # 0 /\ r \in DestinationOf(pipeline.execute.instruction)

\* C37: when detect_hazard returns true, which pipeline.stall records, the
\* instruction in the decode register reads a register other than x0 that the
\* instruction in the execute register writes.
C37_HazardIsGenuine ==
    [][(at["main"] = "run" /\ at'["main"] = "run_check" /\ pipeline'.stall) =>
          GenuineDependency]_vars

\* C38: when run() prints its final dump, write_back has committed the
\* instruction: the write_back thread has returned from its stage function
\* with pipeline.write_back.valid set, so what is printed does not depend on
\* how the stage threads interleave.
C38_DumpAfterCommit ==
    [][(at["main"] = "run_print" /\ at'["main"] = "return") =>
          (at["write_back"] \in {"done", "joined"} /\ pipeline.write_back.valid)]_vars

\* the last byte address of the access, address + width - 1, exceeds
\* 2^32 - 1: the address, an int32_t bit pattern, is one of the last
\* width - 1 addresses of uint32_t
PastAddressSpace ==
    memop.address < 0 /\ memop.address + memop.width - 1 >= 0

\* C39: in the bounds-checked memory a half-word or word load or store whose
\* last byte address exceeds 2^32 - 1 is rejected as out of range.
C39_WrapRejected ==
    (checked /\ memop.op # "none" /\ memop.width \in {2, 4} /\ PastAddressSpace) =>
        memop.kind = "out_of_range"

\* C40: after a store that failed its bounds check the memory is what it was
\* before the call.
C40_FailedStoreWritesNothing ==
    (memop.op = "store" /\ memop.kind = "out_of_range") => data = memop.before

\* a word store at size - 2, which straddles the end of the memory, failed
\* after an earlier store had written the first bytes, and changed nothing
C40_StraddlingStoreFailed ==
    /\ memop.op = "store" /\ memop.kind = "out_of_range"
    /\ memop.width = 4 /\ memop.address = MemSize - 2
    /\ memop.n = 2
    /\ data[0] # 0
    /\ data = memop.before

====
